---- MODULE Spec2Model ----
(***************************************************************************)
(* A model of the XCTest build script: the command-line dispatcher         *)
(* (build_script.py main), the two platform strategies                     *)
(* (bootstrap/strategy.py) and the helpers of bootstrap/os.py.             *)
(*                                                                         *)
(* Paths and command-line tokens are sequences of strings: a path is its   *)
(* sequence of components, an absolute path starts with the component "/". *)
(* "/b" is <<"/", "b">>, the relative path "build" is <<"build">> and the  *)
(* flag --swiftc is <<"--swiftc">>.  The empty sequence stands for None.   *)
(*                                                                         *)
(* strategy.py still spells some helpers by the names they had in          *)
(* build_script.py (_mkdirp, _note, symlink_force, SOURCE_DIR, glob); the  *)
(* model binds them to mkdirp, note and symlink_force of bootstrap/os.py   *)
(* and to SOURCE_DIR of build_script.py, and binds bootstrap.main.main to  *)
(* main of build_script.py.                                                *)
(***************************************************************************)
EXTENDS Integers, Sequences, FiniteSets, TLC

VARIABLES platform, argv, fs, fs0, stack, done, exit_code, err, log, ntmp, call

vars == <<platform, argv, fs, fs0, stack, done, exit_code, err, log, ntmp, call>>

(***************************************************************************)
(* Bounds of the model.                                                    *)
(***************************************************************************)
\* how many symbolic links one path resolution follows before giving up
MaxLinkDepth == 3
\* how many times the library-level specifications call the helper
MaxCalls == 2

None == <<>>
NoPath == <<"?">>

(***************************************************************************)
(* os.path                                                                 *)
(***************************************************************************)
Root == <<"/">>
CWD == <<"/", "cwd">>
TmpRoot == <<"/", "tmp">>

IsAbs(p) == Len(p) > 0 /\ p[1] = "/"

Join(a, b) == IF IsAbs(b) THEN b ELSE a \o b

Abspath(p) == IF IsAbs(p) THEN p ELSE Join(CWD, p)

Basename(p) == IF Len(p) = 0 \/ p = Root THEN <<>> ELSE <<p[Len(p)]>>

Dirname(p) == IF Len(p) <= 1 THEN p ELSE SubSeq(p, 1, Len(p) - 1)

\* str.strip("/") of a path: the leading separator goes
Strip(p) == IF IsAbs(p) THEN Tail(p) ELSE p

(***************************************************************************)
(* The filesystem: a function from the absolute paths that exist to what   *)
(* is there.  A file carries its content, a symbolic link its target.      *)
(***************************************************************************)
Dir == [kind |-> "dir", data |-> "", target |-> None]
File(d) == [kind |-> "file", data |-> d, target |-> None]
Link(t) == [kind |-> "link", data |-> "", target |-> t]

Has(f, p) == p \in DOMAIN f

Put(f, p, e) == [q \in DOMAIN f \cup {p} |-> IF q = p THEN e ELSE f[q]]

Del(f, p) == [q \in DOMAIN f \ {p} |-> f[q]]

\* Path resolution as the kernel does it: cur is the resolved directory so
\* far, rest the components still to walk.  The last component is followed
\* only when followLast.  NoPath: a missing or non-directory parent, or too
\* many links.
RECURSIVE Walk(_, _, _, _, _)
Walk(f, cur, rest, followLast, fuel) ==
    IF rest = <<>> THEN cur
    ELSE IF ~(Has(f, cur) /\ f[cur].kind = "dir") THEN NoPath
    ELSE LET nxt == cur \o <<Head(rest)>>
             last == Len(rest) = 1
         IN IF Has(f, nxt) /\ f[nxt].kind = "link" /\ (~last \/ followLast)
            THEN IF fuel = 0 THEN NoPath
                 ELSE LET t == f[nxt].target
                      IN IF IsAbs(t)
                         THEN Walk(f, Root, Tail(t) \o Tail(rest), followLast, fuel - 1)
                         ELSE Walk(f, cur, t \o Tail(rest), followLast, fuel - 1)
            ELSE Walk(f, nxt, Tail(rest), followLast, fuel)

\* stat: follows a final link
Realpath(f, p) == Walk(f, Root, Tail(Abspath(p)), TRUE, MaxLinkDepth)
\* lstat: does not
LPath(f, p) == Walk(f, Root, Tail(Abspath(p)), FALSE, MaxLinkDepth)

Exists(f, p) == Has(f, Realpath(f, p))

IsDir(f, p) == Exists(f, p) /\ f[Realpath(f, p)].kind = "dir"

IsFile(f, p) == Exists(f, p) /\ f[Realpath(f, p)].kind = "file"

LExists(f, p) == Has(f, LPath(f, p))

\* os.symlink(target, link): [ok, errno, fs]
OsSymlink(f, target, link) ==
    LET l == LPath(f, link)
    IN IF l = NoPath THEN [ok |-> FALSE, errno |-> "ENOENT", fs |-> f]
       ELSE IF Has(f, l) THEN [ok |-> FALSE, errno |-> "EEXIST", fs |-> f]
       ELSE [ok |-> TRUE, errno |-> "", fs |-> Put(f, l, Link(target))]

\* os.remove(path): unlinks a file or a link, refuses a directory
OsRemove(f, path) ==
    LET l == LPath(f, path)
    IN IF l = NoPath \/ ~Has(f, l) THEN [ok |-> FALSE, errno |-> "ENOENT", fs |-> f]
       ELSE IF f[l].kind = "dir" THEN [ok |-> FALSE, errno |-> "EISDIR", fs |-> f]
       ELSE [ok |-> TRUE, errno |-> "", fs |-> Del(f, l)]

(***************************************************************************)
(* bootstrap/os.py                                                         *)
(***************************************************************************)
\* symlink_force(target, link_name): [ok, errno, fs]; ~ok is the OSError
\* that leaves the function
symlink_force(f, target, link_name) ==
    LET ln == IF IsDir(f, link_name)
              THEN Join(link_name, Basename(target))
              ELSE link_name
        first == OsSymlink(f, target, ln)
    IN IF first.ok THEN first
       ELSE IF first.errno = "EEXIST"
            THEN LET rm == OsRemove(f, ln)
                 IN IF rm.ok THEN OsSymlink(rm.fs, target, ln) ELSE rm
            ELSE first

\* mkdirp(path) runs "mkdir -p" exactly when os.path.exists(path) is false
MkdirpRuns(f, path) == ~Exists(f, path)

(***************************************************************************)
(* The external commands, as far as the script depends on what they do.    *)
(* Each may fail for reasons of its own (exit status 1, nothing changed);  *)
(* exit status 0 is possible only where the tool can do its work.          *)
(***************************************************************************)
\* mkdir -p: every missing component is created; a component that is
\* neither a directory nor a link to one makes it fail
RECURSIVE MkWalk(_, _, _)
MkWalk(f, cur, rest) ==
    IF rest = <<>> THEN [ok |-> TRUE, fs |-> f]
    ELSE LET nxt == cur \o <<Head(rest)>>
         IN IF ~Has(f, nxt) THEN MkWalk(Put(f, nxt, Dir), nxt, Tail(rest))
            ELSE IF f[nxt].kind = "dir" THEN MkWalk(f, nxt, Tail(rest))
            ELSE IF f[nxt].kind = "link" /\ IsDir(f, nxt)
                 THEN MkWalk(f, Realpath(f, nxt), Tail(rest))
                 ELSE [ok |-> FALSE, fs |-> f]

ToolMkdirP(f, path) == MkWalk(f, Root, Tail(Abspath(path)))

\* cp src dst: src must be a file, dst a path in an existing directory (or
\* a directory), and not the same file
ToolCp(f, src, dst) ==
    LET s == Realpath(f, src)
        d == IF IsDir(f, dst) THEN Realpath(f, dst) \o Basename(src)
             ELSE Realpath(f, dst)
    IN IF IsFile(f, src) /\ d # NoPath /\ d # s
          /\ Has(f, Dirname(d)) /\ f[Dirname(d)].kind = "dir"
          /\ (Has(f, d) => f[d].kind = "file")
       THEN [ok |-> TRUE, fs |-> Put(f, d, File(f[s].data))]
       ELSE [ok |-> FALSE, fs |-> f]

(***************************************************************************)
(* build_script.py: the argument parser                                    *)
(***************************************************************************)
SOURCE_DIR == <<"/", "src", "xctest">>

\* default of --lit: <parent of SOURCE_DIR>/llvm/utils/lit/lit.py
DefaultLit == Join(Dirname(SOURCE_DIR), <<"llvm", "utils", "lit", "lit.py">>)

\* default of --foundation-install-prefix
DefaultPrefix == <<"/", "usr">>

Subcommands == {"build", "test", "install"}
HelpOptions == {"-h", "--help"}

\* every token of the model that starts with "-"
OptionStrings ==
    HelpOptions \cup
    {"--swiftc", "--build-dir", "--foundation-build-dir",
     "--foundation-install-prefix", "--libdispatch-build-dir",
     "--libdispatch-src-dir", "--module-install-path",
     "--library-install-path", "--release", "--debug", "--test", "--lit",
     "-m", "-l"}

IsOptionLike(t) == Len(t) = 1 /\ t[1] \in OptionStrings

IsHelp(t) == Len(t) = 1 /\ t[1] \in HelpOptions

Strategy(pf) == IF pf = "Darwin" THEN "DarwinStrategy" ELSE "GenericUnixStrategy"

\* a generic strategy that does not ask for Foundation
requires_foundation_build_dir_Never(strategy) == FALSE

requires_foundation_build_dir(strategy) == strategy = "GenericUnixStrategy"

\* the attributes a parsed namespace can carry; None where a subcommand's
\* parser does not define one
BaseNS ==
    [func |-> "", swiftc |-> None, build_dir |-> None,
     foundation_build_dir |-> None, foundation_install_prefix |-> None,
     libdispatch_build_dir |-> None, libdispatch_src_dir |-> None,
     module_path |-> None, lib_path |-> None, build_style |-> "",
     test |-> FALSE, lit |-> None,
     module_install_path |-> None, library_install_path |-> None]

\* set_defaults(func=...) and the default= of each add_argument; tmpdir is
\* the directory tempfile.mkdtemp() made while the parser was built
Defaults(sub, tmpdir) ==
    CASE sub = "build" ->
           [BaseNS EXCEPT !.func = "build", !.build_dir = tmpdir,
                          !.foundation_install_prefix = DefaultPrefix,
                          !.build_style = "debug"]
      [] sub = "test" ->
           [BaseNS EXCEPT !.func = "test", !.lit = DefaultLit,
                          !.foundation_install_prefix = DefaultPrefix]
      [] OTHER -> [BaseNS EXCEPT !.func = "install"]

\* option string -> dest, for the options that take one value
ValueDest(sub) ==
    CASE sub = "build" ->
           [o \in {"--swiftc", "--build-dir", "--foundation-build-dir",
                   "--foundation-install-prefix", "--libdispatch-build-dir",
                   "--libdispatch-src-dir", "--module-install-path",
                   "--library-install-path"} |->
              CASE o = "--swiftc" -> "swiftc"
                [] o = "--build-dir" -> "build_dir"
                [] o = "--foundation-build-dir" -> "foundation_build_dir"
                [] o = "--foundation-install-prefix" -> "foundation_install_prefix"
                [] o = "--libdispatch-build-dir" -> "libdispatch_build_dir"
                [] o = "--libdispatch-src-dir" -> "libdispatch_src_dir"
                [] o = "--module-install-path" -> "module_path"
                [] OTHER -> "lib_path"]
      [] sub = "test" ->
           [o \in {"--swiftc", "--lit", "--foundation-build-dir",
                   "--foundation-install-prefix", "--libdispatch-build-dir",
                   "--libdispatch-src-dir"} |->
              CASE o = "--swiftc" -> "swiftc"
                [] o = "--lit" -> "lit"
                [] o = "--foundation-build-dir" -> "foundation_build_dir"
                [] o = "--foundation-install-prefix" -> "foundation_install_prefix"
                [] o = "--libdispatch-build-dir" -> "libdispatch_build_dir"
                [] OTHER -> "libdispatch_src_dir"]
      [] OTHER ->
           [o \in {"-m", "--module-install-path", "-l", "--library-install-path"} |->
              IF o \in {"-m", "--module-install-path"}
              THEN "module_install_path" ELSE "library_install_path"]

\* the store_const and store_true options
ApplyFlag(sub, o, ns) ==
    CASE o = "--release" -> [ns EXCEPT !.build_style = "release"]
      [] o = "--debug" -> [ns EXCEPT !.build_style = "debug"]
      [] OTHER -> [ns EXCEPT !.test = TRUE]

IsFlag(sub, o) == sub = "build" /\ o \in {"--release", "--debug", "--test"}

HasPositional(sub) == sub \in {"test", "install"}

\* required=True options and the positional, per subcommand
Required(sub, strategy) ==
    (CASE sub = "build" -> {"swiftc"}
       [] sub = "test" -> {"build_dir", "swiftc"}
       [] OTHER -> {"build_dir"})
    \cup (IF sub \in {"build", "test"} /\ requires_foundation_build_dir(strategy)
          THEN {"foundation_build_dir"} ELSE {})

\* A subcommand's parser over the tokens after the subcommand name:
\*   kind "help"  -h/--help was met: usage is printed, exit status 0
\*   kind "error" usage error, exit status 2
\*   kind "ok"    ns is the namespace; extras counts unrecognized tokens
RECURSIVE SubScan(_, _, _, _, _)
SubScan(sub, toks, ns, extras, req) ==
    IF toks = <<>>
    THEN IF \E d \in req : ns[d] = None
         THEN [kind |-> "error", why |-> "required", ns |-> ns, extras |-> extras]
         ELSE [kind |-> "ok", why |-> "", ns |-> ns, extras |-> extras]
    ELSE LET t == Head(toks)
         IN IF IsHelp(t)
            THEN [kind |-> "help", why |-> "", ns |-> ns, extras |-> extras]
            ELSE IF IsOptionLike(t) /\ t[1] \in DOMAIN ValueDest(sub)
            THEN IF Len(toks) >= 2 /\ ~IsOptionLike(toks[2])
                 THEN SubScan(sub, SubSeq(toks, 3, Len(toks)),
                              [ns EXCEPT ![ValueDest(sub)[t[1]]] = toks[2]],
                              extras, req)
                 ELSE [kind |-> "error", why |-> "expected one argument",
                       ns |-> ns, extras |-> extras]
            ELSE IF IsOptionLike(t) /\ IsFlag(sub, t[1])
            THEN SubScan(sub, Tail(toks), ApplyFlag(sub, t[1], ns), extras, req)
            ELSE IF IsOptionLike(t)
            THEN SubScan(sub, Tail(toks), ns, extras + 1, req)
            ELSE IF HasPositional(sub) /\ ns.build_dir = None
            THEN SubScan(sub, Tail(toks), [ns EXCEPT !.build_dir = t], extras, req)
            ELSE SubScan(sub, Tail(toks), ns, extras + 1, req)

\* The top-level parser: it knows -h/--help and the subcommand positional.
\* The first token that does not start with "-" is taken as the subcommand.
RECURSIVE TopScan(_, _, _, _)
TopScan(toks, extras, strategy, tmpdir) ==
    IF toks = <<>>
    THEN [kind |-> "error", why |-> "too few arguments", ns |-> BaseNS, extras |-> extras]
    ELSE LET t == Head(toks)
         IN IF IsHelp(t)
            THEN [kind |-> "help", why |-> "", ns |-> BaseNS, extras |-> extras]
            ELSE IF IsOptionLike(t)
            THEN TopScan(Tail(toks), extras + 1, strategy, tmpdir)
            ELSE IF Len(t) = 1 /\ t[1] \in Subcommands
            THEN LET r == SubScan(t[1], Tail(toks), Defaults(t[1], tmpdir), 0,
                                  Required(t[1], strategy))
                 IN IF r.kind = "ok" /\ extras + r.extras > 0
                    THEN [r EXCEPT !.kind = "error", !.why = "unrecognized arguments"]
                    ELSE r
            ELSE [kind |-> "error", why |-> "invalid choice", ns |-> BaseNS,
                  extras |-> extras]

parse_args(args, strategy, tmpdir) == TopScan(args, 0, strategy, tmpdir)

\* the tokens whose presence anywhere in args keeps main from inserting the
\* default subcommand
KnownWords == {<<"build">>, <<"test">>, <<"install">>, <<"-h">>, <<"--help">>}

\* main: what is handed to parse_args
EffectiveArgs(args) ==
    IF \E i \in 1..Len(args) : args[i] \in KnownWords
    THEN args
    ELSE <<<<"build">>>> \o args

(***************************************************************************)
(* The running script.  stack holds one frame per active call of main:     *)
(* the arguments it was given, then the strategy operation it dispatched   *)
(* to and where that operation stands.  log is the history of what the     *)
(* process did: calls, commands run, messages printed, directories made.   *)
(***************************************************************************)
NoErr == [type |-> "", path |-> None]

\* fs_in remembers the filesystem the call started from
Frame(op, pc, ns, args, fs_in) ==
    [op |-> op, pc |-> pc, ns |-> ns, args |-> args, fs_in |-> fs_in]

Top == stack[Len(stack)]

SetTop(fr) == [stack EXCEPT ![Len(stack)] = fr]

Running == ~done

At(op, pc) == Running /\ Top.op = op /\ Top.pc = pc

\* one entry of log.  st is the status subprocess.check_call saw, tst the
\* exit status of the tool the command is for; depth is the stack depth
Ev(kind, name, a, b, st, tst) ==
    [kind |-> kind, name |-> name, a |-> a, b |-> b, st |-> st, tst |-> tst,
     depth |-> Len(stack)]

Logged(e) == log' = Append(log, e)

\* an uncaught exception or exit(): the process ends with this status and
\* whatever was produced stays
Die(code, e) ==
    /\ done' = TRUE
    /\ exit_code' = code
    /\ err' = e
    /\ stack' = stack

Alive == UNCHANGED <<done, exit_code, err>>

TmpName == <<"tmp1", "tmp2", "tmp3", "tmp4">>

\* the first step of each strategy operation
Entry(strategy, func) ==
    IF strategy = "DarwinStrategy"
    THEN CASE func = "build" -> "d_build"
           [] func = "test" -> "d_test"
           [] OTHER -> "d_install"
    ELSE CASE func = "build" -> "g_mkdirp"
           [] func = "test" -> "t_prepare"
           [] OTHER -> "i_mkdirp_mod"

\* main(args): build the parser (tempfile.mkdtemp() is the default of
\* --build-dir and runs on every call), insert the default subcommand,
\* parse, and call the function of the subcommand
Main ==
    /\ At("main", "main")
    /\ LET tmpdir == TmpRoot \o <<TmpName[ntmp + 1]>>
           strategy == Strategy(platform)
           r == parse_args(EffectiveArgs(Top.args), strategy, tmpdir)
       IN /\ fs' = Put(fs, tmpdir, Dir)
          /\ ntmp' = ntmp + 1
          /\ CASE r.kind = "help" ->
                    /\ Die(0, NoErr)
                    /\ Logged(Ev("mkdtemp", "", tmpdir, None, 0, 0))
               [] r.kind = "error" ->
                    /\ Die(2, [type |-> "usage", path |-> None])
                    /\ Logged(Ev("mkdtemp", "", tmpdir, None, 0, 0))
               [] OTHER ->
                    /\ Alive
                    /\ stack' = SetTop(Frame(r.ns.func, Entry(strategy, r.ns.func),
                                             r.ns, Top.args, fs'))
                    /\ log' = log \o <<Ev("mkdtemp", "", tmpdir, None, 0, 0),
                                       Ev("call", r.ns.func, r.ns.swiftc,
                                          r.ns.build_dir, 0, 0)>>
    /\ UNCHANGED <<platform, argv, fs0, call>>

\* a strategy operation returns, and main with it; when the outermost main
\* returns the process ends with status 0
Return ==
    /\ Running /\ Top.pc = "ret"
    /\ IF Len(stack) = 1
       THEN done' = TRUE /\ stack' = stack
       ELSE done' = FALSE /\ stack' = SubSeq(stack, 1, Len(stack) - 1)
    /\ UNCHANGED <<platform, argv, fs, fs0, exit_code, err, log, ntmp, call>>

\* run(command) for a single command: check_call sees the tool's status
\* out is what the tool leaves when it succeeds, [ok, fs]
RunTool(name, a, b, out, nextpc) ==
    \E st \in {0, 1} :
       /\ st = 0 => out.ok
       /\ Logged(Ev("run", name, a, b, st, st))
       /\ IF st = 0
          THEN /\ fs' = out.fs
               /\ stack' = SetTop([Top EXCEPT !.pc = nextpc])
               /\ Alive
          ELSE /\ fs' = fs
               /\ Die(1, [type |-> "CalledProcessError", path |-> None])

Goto(pc) == SetTop([Top EXCEPT !.pc = pc])

\* main(args=...) called from inside an operation, which goes on at pc
\* once that call has returned
CallMain(args, pc) == Append(Goto(pc), Frame("main", "main", BaseNS, args, fs))

\* mkdirp(path), then on to nextpc
Mkdirp(path, nextpc) ==
    IF MkdirpRuns(fs, path)
    THEN RunTool("mkdir -p", path, None, ToolMkdirP(fs, path), nextpc)
    ELSE /\ fs' = fs /\ log' = log /\ stack' = Goto(nextpc) /\ Alive

(***************************************************************************)
(* bootstrap/strategy.py: DarwinStrategy                                   *)
(***************************************************************************)
\* what a successful xcodebuild leaves under SYMROOT
ToolXcodebuild(f, build_dir) ==
    LET mk == ToolMkdirP(f, build_dir)
    IN IF mk.ok
       THEN [ok |-> TRUE,
             fs |-> Put(mk.fs, Realpath(mk.fs, build_dir) \o <<"SwiftXCTest.framework">>, Dir)]
       ELSE mk

\* the arguments DarwinStrategy.build hands to main for the chained test
DarwinTestArgs(swiftc, build_dir) ==
    <<<<"test">>, <<"--swiftc">>, swiftc, build_dir>>

\* a build that tests whether asked to or not
ChainsTest_Always(ns) == TRUE

\* if args.test
ChainsTest(ns) == ns.test

DarwinBuild ==
    /\ At("build", "d_build")
    /\ LET swiftc == Abspath(Top.ns.swiftc)
           build_dir == Abspath(Top.ns.build_dir)
       IN RunTool("xcodebuild SwiftXCTest", swiftc, build_dir,
                  ToolXcodebuild(fs, build_dir), "d_chain_test")
    /\ UNCHANGED <<platform, argv, fs0, ntmp, call>>

DarwinBuildChainTest ==
    /\ At("build", "d_chain_test")
    /\ stack' = IF ChainsTest(Top.ns)
                THEN CallMain(DarwinTestArgs(Abspath(Top.ns.swiftc),
                                             Abspath(Top.ns.build_dir)), "ret")
                ELSE Goto("ret")
    /\ UNCHANGED <<platform, argv, fs, fs0, done, exit_code, err, log, ntmp, call>>

\* the status of "a | b" under sh is the status of b
PipeStatus(sts) == sts[Len(sts)]

\* run("xcodebuild ... | grep -v ..."): grep exits 0 when it printed a line
DarwinTest ==
    /\ At("test", "d_test")
    /\ \E tst \in {0, 1}, gst \in {0, 1} :
          LET st == PipeStatus(<<tst, gst>>)
          IN /\ Logged(Ev("run", "xcodebuild SwiftXCTestFunctionalTests",
                          Abspath(Top.ns.swiftc), Abspath(Top.ns.build_dir), st, tst))
             /\ IF st = 0
                THEN stack' = Goto("ret") /\ Alive
                ELSE Die(1, [type |-> "CalledProcessError", path |-> None])
    /\ UNCHANGED <<platform, argv, fs, fs0, ntmp, call>>

NotSupported == "error: The install command is not supported on this platform"

DarwinInstall ==
    /\ At("install", "d_install")
    /\ Logged(Ev("note", NotSupported, None, None, 0, 0))
    /\ Die(1, [type |-> "exit", path |-> None])
    /\ UNCHANGED <<platform, argv, fs, fs0, ntmp, call>>

(***************************************************************************)
(* bootstrap/strategy.py: GenericUnixStrategy                              *)
(***************************************************************************)
core_foundation_build_dir(foundation_build_dir, foundation_install_prefix) ==
    Join(Join(foundation_build_dir, Strip(foundation_install_prefix)),
         <<"lib", "swift">>)

\* the compiler: object, module and module documentation into build_dir
ToolCompile(f, build_dir) ==
    IF IsDir(f, build_dir)
    THEN LET d == Realpath(f, build_dir)
         IN [ok |-> TRUE,
             fs |-> Put(Put(Put(f, d \o <<"XCTest.o">>, File("o")),
                            d \o <<"XCTest.swiftmodule">>, File("swiftmodule")),
                        d \o <<"XCTest.swiftdoc">>, File("swiftdoc"))]
    ELSE [ok |-> FALSE, fs |-> f]

\* the linker: the shared library from the object
ToolLink(f, build_dir) ==
    IF IsFile(f, Join(build_dir, <<"XCTest.o">>))
    THEN [ok |-> TRUE,
          fs |-> Put(f, Realpath(f, build_dir) \o <<"libXCTest.so">>, File("so"))]
    ELSE [ok |-> FALSE, fs |-> f]

\* the arguments GenericUnixStrategy.build hands to main for the chained test
GenericTestArgs(swiftc, foundation_build_dir, build_dir) ==
    <<<<"test">>, <<"--swiftc">>, swiftc,
      <<"--foundation-build-dir">>, foundation_build_dir, build_dir>>

\* ... and for the chained install
GenericInstallArgs(build_dir, module_path, lib_path) ==
    <<<<"install">>, build_dir, <<"--module-install-path">>, module_path,
      <<"--library-install-path">>, lib_path>>

\* a build that installs when either path is given
ChainsInstall_Either(ns) == ns.module_path # None \/ ns.lib_path # None

\* if args.module_path is not None and args.lib_path is not None
ChainsInstall(ns) == ns.module_path # None /\ ns.lib_path # None

GBuildMkdirp ==
    /\ At("build", "g_mkdirp")
    /\ Mkdirp(Abspath(Top.ns.build_dir), "g_compile")
    /\ UNCHANGED <<platform, argv, fs0, ntmp, call>>

GBuildCompile ==
    /\ At("build", "g_compile")
    /\ LET build_dir == Abspath(Top.ns.build_dir)
       IN RunTool("swiftc -c", Abspath(Top.ns.swiftc), build_dir,
                  ToolCompile(fs, build_dir), "g_link")
    /\ UNCHANGED <<platform, argv, fs0, ntmp, call>>

GBuildLink ==
    /\ At("build", "g_link")
    /\ LET build_dir == Abspath(Top.ns.build_dir)
       IN RunTool("swiftc -emit-library", Abspath(Top.ns.swiftc), build_dir,
                  ToolLink(fs, build_dir), "g_chain_test")
    /\ UNCHANGED <<platform, argv, fs0, ntmp, call>>

GBuildChainTest ==
    /\ At("build", "g_chain_test")
    /\ stack' = IF ChainsTest(Top.ns)
                THEN CallMain(GenericTestArgs(Abspath(Top.ns.swiftc),
                                              Abspath(Top.ns.foundation_build_dir),
                                              Abspath(Top.ns.build_dir)),
                              "g_chain_install")
                ELSE Goto("g_chain_install")
    /\ UNCHANGED <<platform, argv, fs, fs0, done, exit_code, err, log, ntmp, call>>

GBuildChainInstall ==
    /\ At("build", "g_chain_install")
    /\ stack' = IF ChainsInstall(Top.ns)
                THEN CallMain(GenericInstallArgs(Abspath(Top.ns.build_dir),
                                                 Top.ns.module_path, Top.ns.lib_path),
                              "g_done")
                ELSE Goto("g_done")
    /\ UNCHANGED <<platform, argv, fs, fs0, done, exit_code, err, log, ntmp, call>>

GBuildDone ==
    /\ At("build", "g_done")
    /\ Logged(Ev("note", "Done.", None, None, 0, 0))
    /\ stack' = Goto("ret")
    /\ UNCHANGED <<platform, argv, fs, fs0, done, exit_code, err, ntmp, call>>

\* a test that does not look for lit
LitMissing_Never(f, lit_path) == FALSE

\* if not os.path.exists(lit_path): raise IOError
LitMissing(f, lit_path) == ~Exists(f, lit_path)

\* what test links into the Foundation build directory
LibdispatchSo(libdispatch_build_dir) ==
    Join(libdispatch_build_dir, <<"src", ".libs", "libdispatch.so">>)

\* test up to its command: the lit check, then the libdispatch link
GTestPrepare ==
    /\ At("test", "t_prepare")
    /\ LET lit_path == Abspath(Top.ns.lit)
           foundation_build_dir == Abspath(Top.ns.foundation_build_dir)
           ln == symlink_force(fs, LibdispatchSo(Top.ns.libdispatch_build_dir),
                               foundation_build_dir)
       IN IF LitMissing(fs, lit_path)
          THEN /\ Die(1, [type |-> "IOError", path |-> lit_path])
               /\ UNCHANGED <<fs, log>>
          ELSE IF Top.ns.libdispatch_build_dir = None
          THEN /\ stack' = Goto("t_run") /\ Alive
               /\ UNCHANGED <<fs, log>>
          ELSE IF ln.ok
          THEN /\ fs' = ln.fs
               /\ Logged(Ev("symlink", "", LibdispatchSo(Top.ns.libdispatch_build_dir),
                            foundation_build_dir, 0, 0))
               /\ stack' = Goto("t_run") /\ Alive
          ELSE /\ Die(1, [type |-> "OSError", path |-> foundation_build_dir])
               /\ UNCHANGED <<fs, log>>
    /\ UNCHANGED <<platform, argv, fs0, ntmp, call>>

GTestRun ==
    /\ At("test", "t_run")
    /\ RunTool("lit", Abspath(Top.ns.swiftc), Top.ns.build_dir,
               [ok |-> TRUE, fs |-> fs], "ret")
    /\ UNCHANGED <<platform, argv, fs0, ntmp, call>>

\* an install that puts the module documentation beside the library
InstallCopies_DocToLib(build_dir, module_install_path, library_install_path) ==
    << <<Join(build_dir, <<"libXCTest.so">>),
         Join(library_install_path, <<"libXCTest.so">>)>>,
       <<Join(build_dir, <<"XCTest.swiftmodule">>),
         Join(module_install_path, <<"XCTest.swiftmodule">>)>>,
       <<Join(build_dir, <<"XCTest.swiftdoc">>),
         Join(library_install_path, <<"XCTest.swiftdoc">>)>> >>

\* the three cp commands of install, in order: <<source, destination>>
InstallCopies(build_dir, module_install_path, library_install_path) ==
    << <<Join(build_dir, <<"libXCTest.so">>),
         Join(library_install_path, <<"libXCTest.so">>)>>,
       <<Join(build_dir, <<"XCTest.swiftmodule">>),
         Join(module_install_path, <<"XCTest.swiftmodule">>)>>,
       <<Join(build_dir, <<"XCTest.swiftdoc">>),
         Join(module_install_path, <<"XCTest.swiftdoc">>)>> >>

\* os.path.abspath(None) raises before anything is made
GInstallMkdirpModule ==
    /\ At("install", "i_mkdirp_mod")
    /\ IF Top.ns.module_install_path = None \/ Top.ns.library_install_path = None
       THEN /\ Die(1, [type |-> "TypeError", path |-> None])
            /\ UNCHANGED <<fs, log>>
       ELSE Mkdirp(Abspath(Top.ns.module_install_path), "i_mkdirp_lib")
    /\ UNCHANGED <<platform, argv, fs0, ntmp, call>>

GInstallMkdirpLibrary ==
    /\ At("install", "i_mkdirp_lib")
    /\ Mkdirp(Abspath(Top.ns.library_install_path), "i_cp1")
    /\ UNCHANGED <<platform, argv, fs0, ntmp, call>>

CpIndex(pc) == CASE pc = "i_cp1" -> 1 [] pc = "i_cp2" -> 2 [] OTHER -> 3

CpNext(pc) == CASE pc = "i_cp1" -> "i_cp2" [] pc = "i_cp2" -> "i_cp3" [] OTHER -> "ret"

GInstallCp ==
    /\ Running /\ Top.op = "install" /\ Top.pc \in {"i_cp1", "i_cp2", "i_cp3"}
    /\ LET c == InstallCopies(Abspath(Top.ns.build_dir),
                              Abspath(Top.ns.module_install_path),
                              Abspath(Top.ns.library_install_path))[CpIndex(Top.pc)]
       IN RunTool("cp", c[1], c[2], ToolCp(fs, c[1], c[2]), CpNext(Top.pc))
    /\ UNCHANGED <<platform, argv, fs0, ntmp, call>>

(***************************************************************************)
(* The invocations and the filesystems the model starts from.              *)
(***************************************************************************)
Opt(name, v) == IF v = None THEN <<>> ELSE <<<<name>>, v>>

Flag(name, b) == IF b THEN <<<<name>>>> ELSE <<>>

Pos(v) == IF v = None THEN <<>> ELSE <<v>>

SwiftcValues == {None, <<"sw">>}
BuildDirValues == {None, <<"build">>, <<"/", "b">>}
FoundationValues == {None, <<"/", "f">>}
PrefixValues == {None, <<"/", "opt">>}
DispatchBuildValues == {None, <<"/", "ld">>}
DispatchSrcValues == {None, <<"/", "lds">>}
ModulePathValues == {None, <<"/", "m">>}
LibraryPathValues == {None, <<"/", "l">>}
LitValues == {None, <<"lit">>}

\* build, named or left to the default
BuildArgvs ==
    { Flag("build", named) \o Opt("--swiftc", sw) \o Opt("--build-dir", bd)
        \o Opt("--foundation-build-dir", fd)
        \o Opt("--foundation-install-prefix", px)
        \o Opt("--libdispatch-build-dir", ldb) \o Opt("--libdispatch-src-dir", lds)
        \o Opt("--module-install-path", m) \o Opt("--library-install-path", l)
        \o Flag("--test", t) \o Flag("-h", h) :
        named \in BOOLEAN, sw \in SwiftcValues, bd \in BuildDirValues,
        fd \in FoundationValues, px \in PrefixValues,
        ldb \in DispatchBuildValues, lds \in DispatchSrcValues,
        m \in ModulePathValues, l \in LibraryPathValues,
        t \in BOOLEAN, h \in BOOLEAN }

TestArgvs ==
    { <<<<"test">>>> \o Opt("--swiftc", sw) \o Opt("--lit", lit)
        \o Opt("--foundation-build-dir", fd)
        \o Opt("--foundation-install-prefix", px)
        \o Opt("--libdispatch-build-dir", ldb) \o Opt("--libdispatch-src-dir", lds)
        \o Pos(bd) \o Flag("-h", h) :
        sw \in SwiftcValues, lit \in LitValues, fd \in FoundationValues,
        px \in PrefixValues, ldb \in DispatchBuildValues,
        lds \in DispatchSrcValues, bd \in BuildDirValues, h \in BOOLEAN }

InstallArgvs ==
    { <<<<"install">>>> \o Pos(bd) \o Opt("--module-install-path", m)
        \o Opt("-l", l) \o Flag("--help", h) :
        bd \in BuildDirValues, m \in ModulePathValues,
        l \in LibraryPathValues, h \in BOOLEAN }

Argvs == BuildArgvs \cup TestArgvs \cup InstallArgvs

Entries(ps, e) == [p \in ps |-> e]

BaseFs ==
    Entries({Root, CWD, TmpRoot, <<"/", "src">>, SOURCE_DIR, <<"/", "f">>}, Dir)

\* the lit tool, at its default place and at ./lit
LitFs ==
    Entries({<<"/", "src", "llvm">>, <<"/", "src", "llvm", "utils">>,
             <<"/", "src", "llvm", "utils", "lit">>}, Dir)
    @@ Entries({DefaultLit, <<"/", "cwd", "lit">>}, File("lit"))

\* what an earlier build left in directory d
Products(d) ==
    (d :> Dir)
    @@ (d \o <<"XCTest.o">> :> File("o"))
    @@ (d \o <<"XCTest.swiftmodule">> :> File("swiftmodule"))
    @@ (d \o <<"XCTest.swiftdoc">> :> File("swiftdoc"))
    @@ (d \o <<"libXCTest.so">> :> File("so"))

\* an earlier run: its build directories, the module install directory and
\* the libdispatch link it made
OldFs ==
    Products(<<"/", "b">>) @@ Products(<<"/", "cwd", "build">>)
    @@ Entries({<<"/", "m">>}, Dir)
    @@ Entries({<<"/", "f", "libdispatch.so">>}, Link(<<"/", "old", "libdispatch.so">>))

InitialFs == {BaseFs, LitFs @@ BaseFs, OldFs @@ BaseFs, LitFs @@ OldFs @@ BaseFs}

NoCall == [target |-> None, link |-> None, n |-> 0, errs |-> <<>>, after |-> <<>>]

Init ==
    /\ platform \in {"Darwin", "Linux"}
    /\ argv \in Argvs
    /\ fs \in InitialFs
    /\ fs0 = fs
    /\ stack = <<Frame("main", "main", BaseNS, argv, fs)>>
    /\ done = FALSE
    /\ exit_code = 0
    /\ err = NoErr
    /\ log = <<>>
    /\ ntmp = 0
    /\ call = NoCall

Next ==
    \/ Main
    \/ Return
    \/ DarwinBuild
    \/ DarwinBuildChainTest
    \/ DarwinTest
    \/ DarwinInstall
    \/ GBuildMkdirp
    \/ GBuildCompile
    \/ GBuildLink
    \/ GBuildChainTest
    \/ GBuildChainInstall
    \/ GBuildDone
    \/ GTestPrepare
    \/ GTestRun
    \/ GInstallMkdirpModule
    \/ GInstallMkdirpLibrary
    \/ GInstallCp

Spec == Init /\ [][Next]_vars

TypeOK ==
    /\ platform \in {"Darwin", "Linux"}
    /\ done \in BOOLEAN
    /\ exit_code \in {0, 1, 2}
    /\ ntmp \in 0..3
    /\ Len(stack) \in 1..2

(***************************************************************************)
(* Vocabulary of the properties.                                           *)
(***************************************************************************)
Events == 1..Len(log)

IsCall(i, op) == log[i].kind = "call" /\ log[i].name = op

IsRun(i) == log[i].kind = "run"

\* the call of an operation that main made from inside build
Chained(i, op) == IsCall(i, op) /\ log[i].depth = 2

\* the outermost call has parsed and dispatched or exited
Parsed == ntmp >= 1

\* the user's own command line
HasToken(t) == \E i \in 1..Len(argv) : argv[i] = t
NoHelp == ~HasToken(<<"-h">>) /\ ~HasToken(<<"--help">>)
NoSubcommand == argv = <<>> \/ IsOptionLike(argv[1])
Names(sub) == argv # <<>> /\ argv[1] = <<sub>>

\* the outermost operation is build, with this namespace
InBuild == stack[1].op = "build"
B == stack[1].ns

\* a call of main made from inside build has not parsed yet
Pending == Len(stack) = 2 /\ stack[2].op = "main"

(***************************************************************************)
(* C1.  When the command line names no subcommand (it holds only flags     *)
(* and their values, and asks for no help), main parses it as "build"      *)
(* followed by the command line: what build's parser accepts is            *)
(* dispatched to build, what it rejects is a usage error.  test and        *)
(* install are dispatched from the command line only when it names them.   *)
(* (The statement of the claim; the code breaks it.)                       *)
(***************************************************************************)
C1_DefaultIsBuild ==
    /\ (Parsed /\ NoSubcommand /\ NoHelp) =>
          LET r == parse_args(<<<<"build">>>> \o argv, Strategy(platform),
                              TmpRoot \o <<TmpName[1]>>)
          IN IF r.kind = "ok"
             THEN Len(log) >= 2 /\ IsCall(2, "build")
             ELSE done /\ exit_code = 2 /\ Len(log) = 1
    /\ \A i \in Events :
          (log[i].kind = "call" /\ log[i].depth = 1 /\ log[i].name # "build")
             => Names(log[i].name)

(***************************************************************************)
(* C2.  A tool that exits non-zero ends the invocation: the command it was *)
(* run by is the last thing the process did, and the process has ended     *)
(* with a non-zero status.  (The statement of the claim; the code breaks   *)
(* it.)                                                                    *)
(***************************************************************************)
C2_ToolFailureIsFatal ==
    \A i \in Events :
       (IsRun(i) /\ log[i].tst # 0) =>
          /\ i = Len(log)
          /\ done
          /\ exit_code # 0

(***************************************************************************)
(* C3.  Build chains to test exactly when its test flag is set: never      *)
(* without the flag, at most once, once when build has passed the point    *)
(* of chaining; and the chained test comes after every build command has   *)
(* succeeded and is given build's compiler and the absolute build          *)
(* directory those commands wrote to.  The call of main that chains is     *)
(* never rejected by the parser.                                           *)
(***************************************************************************)
\* build has passed "if args.test: main(...)" and that call has parsed
PastTestChain ==
    /\ InBuild
    /\ stack[1].pc \in {"g_chain_install", "g_done", "ret"}
    /\ ~(Pending /\ \A i \in Events : ~Chained(i, "test"))

\* the commands of build, by strategy
BuildCommands ==
    IF platform = "Darwin" THEN {"xcodebuild SwiftXCTest"}
    ELSE {"swiftc -c", "swiftc -emit-library"}

BuildSucceededBefore(i) ==
    /\ \A c \in BuildCommands :
          \E j \in 1..(i - 1) : IsRun(j) /\ log[j].name = c /\ log[j].st = 0
    /\ \A j \in 1..(i - 1) : IsRun(j) => log[j].st = 0 /\ log[j].tst = 0

C3_BuildChainsTest ==
    InBuild =>
       /\ ~(Pending /\ done)
       /\ ~B.test => \A i \in Events : ~Chained(i, "test")
       /\ Cardinality({i \in Events : Chained(i, "test")}) <= 1
       /\ (B.test /\ PastTestChain) => \E i \in Events : Chained(i, "test")
       /\ \A i \in Events :
             Chained(i, "test") =>
                /\ BuildSucceededBefore(i)
                /\ log[i].a = Abspath(B.swiftc)
                /\ log[i].b = Abspath(B.build_dir)
                /\ IsAbs(log[i].b)
                /\ \A j \in 1..(i - 1) :
                      (IsRun(j) /\ log[j].name \in BuildCommands)
                         => log[j].b = log[i].b /\ log[j].a = log[i].a

\* a chained test under the generic strategy with a relative build directory
C3_Witness ==
    /\ platform = "Linux" /\ InBuild /\ B.build_dir = <<"build">>
    /\ \E i \in Events : Chained(i, "test")

(***************************************************************************)
(* C4.  As claimed, for both strategies: once build has passed the point   *)
(* of chaining, install was invoked from it exactly when both install      *)
(* paths were supplied.                                                    *)
(***************************************************************************)
PastInstallChain ==
    /\ InBuild
    /\ stack[1].pc \in {"g_done", "ret"}
    /\ ~Pending

BothInstallPaths == B.module_path # None /\ B.lib_path # None

C4_Original ==
    PastInstallChain =>
       (BothInstallPaths <=> \E i \in Events : Chained(i, "install"))

(***************************************************************************)
(* C4, amended.  Under the generic strategy build invokes install exactly  *)
(* when both install paths were supplied, after the build commands and     *)
(* after the chained test, which have all succeeded; under the Apple       *)
(* strategy build never invokes install.                                   *)
(***************************************************************************)
C4_BuildChainsInstall ==
    InBuild =>
       IF platform = "Darwin"
       THEN \A i \in Events : ~Chained(i, "install")
       ELSE /\ ~(Pending /\ done)
            /\ PastInstallChain =>
                 (BothInstallPaths <=> \E i \in Events : Chained(i, "install"))
            /\ ~BothInstallPaths => \A i \in Events : ~Chained(i, "install")
            /\ \A i \in Events :
                  Chained(i, "install") =>
                     /\ BuildSucceededBefore(i)
                     /\ B.test => \E j \in 1..(i - 1) :
                                     /\ IsRun(j) /\ log[j].name = "lit"
                                     /\ log[j].st = 0
                     /\ log[i].b = Abspath(B.build_dir)

\* install chained after a chained test
C4_Witness ==
    /\ platform = "Linux" /\ InBuild /\ B.test
    /\ \E i \in Events : Chained(i, "install")

(***************************************************************************)
(* C5.  When install has run to its end under the generic strategy: both   *)
(* install directories exist; after its mkdir commands it ran exactly      *)
(* three cp commands, libXCTest.so into the library directory and          *)
(* XCTest.swiftmodule and XCTest.swiftdoc into the module directory, each  *)
(* under its own name and with the content of its source; nothing else     *)
(* was written except the directories mkdir made, and the build directory  *)
(* is as it was.                                                           *)
(***************************************************************************)
IsPrefix(p, q) == Len(p) <= Len(q) /\ SubSeq(q, 1, Len(p)) = p

CpEvent(e) == e.kind = "run" /\ e.name = "cp"

\* the log since the last call of op
Since(op) ==
    LET i == CHOOSE k \in Events :
                IsCall(k, op) /\ \A j \in Events : IsCall(j, op) => j <= k
    IN SubSeq(log, i + 1, Len(log))

C5_GenericInstall ==
    (platform = "Linux" /\ Top.op = "install" /\ Top.pc = "ret") =>
       LET bd == Abspath(Top.ns.build_dir)
           m == Abspath(Top.ns.module_install_path)
           l == Abspath(Top.ns.library_install_path)
           src == <<bd \o <<"libXCTest.so">>, bd \o <<"XCTest.swiftmodule">>,
                    bd \o <<"XCTest.swiftdoc">>>>
           dst == <<l \o <<"libXCTest.so">>, m \o <<"XCTest.swiftmodule">>,
                    m \o <<"XCTest.swiftdoc">>>>
           dsts == {dst[k] : k \in 1..3}
           was == Top.fs_in
           did == Since("install")
           cps == SelectSeq(did, CpEvent)
       IN /\ IsDir(fs, m) /\ IsDir(fs, l)
          /\ Len(cps) = 3
          /\ \A k \in 1..3 :
                /\ cps[k].a = src[k] /\ cps[k].b = dst[k] /\ cps[k].st = 0
                /\ Basename(cps[k].a) = Basename(cps[k].b)
                /\ Has(fs, dst[k]) /\ Has(was, src[k])
                /\ fs[dst[k]] = was[src[k]]
          /\ \A i \in 1..Len(did) :
                /\ did[i].kind = "run" /\ did[i].name \in {"mkdir -p", "cp"}
                /\ did[i].name = "mkdir -p" => did[i].a \in {m, l}
                /\ \A j \in 1..Len(did) :
                      (i < j /\ did[i].name = "cp") => did[j].name = "cp"
          /\ \A p \in DOMAIN was : Has(fs, p) /\ (fs[p] = was[p] \/ p \in dsts)
          /\ \A p \in DOMAIN fs \ DOMAIN was :
                \/ p \in dsts
                \/ fs[p].kind = "dir" /\ (IsPrefix(p, m) \/ IsPrefix(p, l))
          /\ \A p \in DOMAIN fs \cup DOMAIN was :
                IsPrefix(bd, p) => Has(fs, p) /\ Has(was, p) /\ fs[p] = was[p]

\* an install named on the command line that had a directory to make
C5_Witness ==
    /\ platform = "Linux" /\ Names("install")
    /\ Top.op = "install" /\ Top.pc = "ret"
    /\ \E i \in Events : IsRun(i) /\ log[i].name = "mkdir -p"

(***************************************************************************)
(* C6.  Under the Apple strategy an invocation of the install subcommand   *)
(* ends having printed the "not supported" error, with a non-zero status,  *)
(* and with no directory made and no file copied.  (The statement of the   *)
(* claim, taken for the command lines that name a build directory and ask  *)
(* for no help, which are the ones that reach the operation; the code      *)
(* breaks it.)                                                             *)
(***************************************************************************)
\* a token that is neither an option nor the value of one (of the options
\* of test and install only the help flags take no value)
PositionalGiven ==
    \E i \in 2..Len(argv) :
       /\ ~IsOptionLike(argv[i])
       /\ ~(IsOptionLike(argv[i - 1]) /\ argv[i - 1][1] \notin HelpOptions)

C6_AppleInstall ==
    (platform = "Darwin" /\ Names("install") /\ PositionalGiven /\ NoHelp /\ done) =>
       /\ \E i \in Events : log[i].kind = "note" /\ log[i].name = NotSupported
       /\ exit_code # 0
       /\ DOMAIN fs = DOMAIN fs0
       /\ \A i \in Events : ~IsRun(i)

(***************************************************************************)
(* C7.  Whether --foundation-build-dir is required is settled by the       *)
(* strategy before the arguments are validated.  Under the generic         *)
(* strategy a build or test command line without it (and without a help    *)
(* flag) is a usage error: exit status 2, no operation invoked, no         *)
(* command run.  Under the Apple strategy a build or test command line     *)
(* without it, with its other required arguments, is dispatched to the     *)
(* operation it names.                                                     *)
(***************************************************************************)
OmitsFoundation == ~HasToken(<<"--foundation-build-dir">>)

C7_ConditionalRequired ==
    /\ (platform = "Linux" /\ Parsed /\ OmitsFoundation /\ NoHelp
          /\ (Names("build") \/ Names("test") \/ NoSubcommand)) =>
          /\ done /\ exit_code = 2 /\ err.type = "usage"
          /\ \A i \in Events : ~IsRun(i) /\ log[i].kind # "call"
    /\ (platform = "Darwin" /\ Parsed /\ OmitsFoundation /\ NoHelp
          /\ (Names("build") \/ Names("test")) /\ HasToken(<<"--swiftc">>)
          /\ (Names("test") => PositionalGiven)) =>
          /\ Len(log) >= 2 /\ IsCall(2, argv[1][1])

\* a build rejected under the generic strategy for the missing flag alone
C7_Witness ==
    /\ platform = "Linux" /\ Names("build") /\ HasToken(<<"--swiftc">>)
    /\ OmitsFoundation /\ NoHelp
    /\ done /\ exit_code = 2

(***************************************************************************)
(* C8.  An invocation that the parser rejects has run no command and has   *)
(* changed nothing in the filesystem.  (The statement of the claim; the    *)
(* code breaks it.)                                                        *)
(***************************************************************************)
\* a flag the active strategy requires is not on the command line
RequiredFlagMissing ==
    /\ Names("build") \/ Names("test")
    /\ \/ ~HasToken(<<"--swiftc">>)
       \/ requires_foundation_build_dir(Strategy(platform)) /\ OmitsFoundation

C8_RejectedDoesNothing ==
    (done /\ err.type = "usage" /\ Len(stack) = 1 /\ RequiredFlagMissing) =>
       /\ exit_code # 0
       /\ \A i \in Events : ~IsRun(i)
       /\ fs = fs0

(***************************************************************************)
(* C9.  Under the generic strategy a test for which nothing exists at the  *)
(* lit path does one thing: it raises the IOError naming that path, and    *)
(* the process ends with status 1.  Nothing was done by it before (no      *)
(* link made, no command run) and nothing is done after: a chained         *)
(* install is never reached.                                               *)
(***************************************************************************)
LitAbsent == Top.op = "test" /\ ~Exists(fs, Abspath(Top.ns.lit))

C9_State ==
    platform = "Linux" =>
       /\ LitAbsent =>
             /\ Top.pc = "t_prepare"
             /\ IsCall(Len(log), "test")
             /\ fs = Top.fs_in
             /\ done => /\ err = [type |-> "IOError", path |-> Abspath(Top.ns.lit)]
                        /\ exit_code = 1
       /\ err.type = "IOError" =>
             /\ done
             /\ \A i \in Events : ~IsCall(i, "install")

C9_Step ==
    (platform = "Linux" /\ ~done /\ LitAbsent) =>
       /\ done'
       /\ err' = [type |-> "IOError", path |-> Abspath(Top.ns.lit)]
       /\ exit_code' = 1
       /\ fs' = fs
       /\ log' = log

C9_MissingLit == []C9_State /\ [][C9_Step]_vars

\* the test chained from a build that was to install
C9_Witness ==
    /\ platform = "Linux" /\ InBuild /\ BothInstallPaths
    /\ Len(stack) = 2 /\ Top.op = "test"
    /\ done /\ err.type = "IOError"

(***************************************************************************)
(* The dependency locations each command is run with.                      *)
(***************************************************************************)
\* GenericUnixStrategy.build: the CoreFoundation products directory and the
\* libdispatch directories its compile command is formatted from
BuildDependencies(ns) ==
    [core_foundation |->
        core_foundation_build_dir(Abspath(ns.foundation_build_dir),
                                  ns.foundation_install_prefix),
     libdispatch_build |-> IF ns.libdispatch_build_dir # None
                           THEN Abspath(ns.libdispatch_build_dir) ELSE None,
     libdispatch_src |-> IF ns.libdispatch_src_dir # None
                         THEN Abspath(ns.libdispatch_src_dir) ELSE None]

\* GenericUnixStrategy.test: the same three, as its lit command gets them
TestDependencies(ns) ==
    [core_foundation |->
        core_foundation_build_dir(Abspath(ns.foundation_build_dir),
                                  ns.foundation_install_prefix),
     libdispatch_build |-> IF ns.libdispatch_build_dir # None
                           THEN Abspath(ns.libdispatch_build_dir) ELSE None,
     libdispatch_src |-> IF ns.libdispatch_src_dir # None
                         THEN Abspath(ns.libdispatch_src_dir) ELSE None]

\* the generic test chained from a build is at, or past, its lit command
ChainedTestRuns ==
    /\ platform = "Linux" /\ InBuild
    /\ Len(stack) = 2 /\ Top.op = "test" /\ Top.pc \in {"t_run", "ret"}

(***************************************************************************)
(* C12.  Under the generic strategy the test chained from a build runs     *)
(* with the dependency configuration of the build: the same CoreFoundation *)
(* products directory (so the same Foundation install prefix) and the same *)
(* libdispatch build and source directories, whatever flags the build was  *)
(* given.  (The statement of the claim; the code breaks it.)               *)
(***************************************************************************)
C12_ConfigCarried ==
    ChainedTestRuns => TestDependencies(Top.ns) = BuildDependencies(B)

(***************************************************************************)
(* symlink_force on its own: from a filesystem with something or nothing   *)
(* at the link path, the same call is made MaxCalls times.  call records   *)
(* the arguments, and after each call the errno it raised ("" for none)    *)
(* and the filesystem it left.                                             *)
(***************************************************************************)
LinkTargets == {<<"/", "t">>, <<"/", "d">>, <<"/", "gone">>}
LinkNames == {<<"/", "x">>, <<"x">>}

\* a file, a directory and nothing else to point at
TargetFs ==
    Entries({Root, CWD, <<"/", "d">>}, Dir) @@ Entries({<<"/", "t">>}, File("t"))

\* what can be at the link path x before the first call
LinkStates(x) ==
    { TargetFs,
      (x :> File("old")) @@ TargetFs,
      (x :> Link(<<"/", "t">>)) @@ TargetFs,
      (x :> Link(<<"/", "d">>)) @@ TargetFs,
      (x :> Link(<<"/", "gone">>)) @@ TargetFs,
      (x :> Dir) @@ TargetFs,
      (x :> Dir) @@ (x \o <<"t">> :> File("old")) @@ TargetFs,
      (x :> Dir) @@ (x \o <<"d">> :> Link(<<"/", "t">>)) @@ TargetFs,
      (x :> Dir) @@ (x \o <<"gone">> :> Dir) @@ TargetFs }

InitSymlink ==
    /\ \E t \in LinkTargets, l \in LinkNames :
          /\ call = [target |-> t, link |-> l, n |-> 0, errs |-> <<>>, after |-> <<>>]
          /\ fs \in LinkStates(Abspath(l))
    /\ fs0 = fs
    /\ platform = "Linux"
    /\ argv = <<>>
    /\ stack = <<Frame("symlink_force", "call", BaseNS, <<>>, fs)>>
    /\ done = FALSE
    /\ exit_code = 0
    /\ err = NoErr
    /\ log = <<>>
    /\ ntmp = 0

SymlinkForceCall ==
    /\ call.n < MaxCalls
    /\ LET r == symlink_force(fs, call.target, call.link)
       IN /\ fs' = r.fs
          /\ call' = [call EXCEPT !.n = @ + 1,
                                  !.errs = Append(@, r.errno),
                                  !.after = Append(@, r.fs)]
    /\ UNCHANGED <<platform, argv, fs0, stack, done, exit_code, err, log, ntmp>>

NextSymlink == SymlinkForceCall

SpecSymlink == InitSymlink /\ [][NextSymlink]_vars

(***************************************************************************)
(* C10.  Calling symlink_force a second time with the same arguments,      *)
(* after a first call that succeeded, raises nothing and leaves the        *)
(* filesystem as the first call left it: one link, at the link path as     *)
(* first resolved, pointing at target.  (The statement of the claim; the   *)
(* code breaks it.)                                                        *)
(***************************************************************************)
C10_SymlinkForceIdempotent ==
    (call.n >= 2 /\ call.errs[1] = "") =>
       LET ln == IF IsDir(fs0, call.link)
                 THEN Join(call.link, Basename(call.target))
                 ELSE call.link
           at == LPath(fs0, ln)
       IN /\ call.errs[2] = ""
          /\ call.after[2] = call.after[1]
          /\ Has(call.after[2], at) /\ call.after[2][at] = Link(call.target)
          /\ \A p \in DOMAIN call.after[2] \ {at} :
                Has(fs0, p) /\ call.after[2][p] = fs0[p]

(***************************************************************************)
(* mkdirp on its own: from a filesystem with something or nothing at the   *)
(* path, the same call is made MaxCalls times.  call records the path,     *)
(* and after each call the error it raised ("" for none), whether it ran   *)
(* "mkdir -p", and the filesystem it left.                                 *)
(***************************************************************************)
MkdirPaths ==
    {<<"/", "p">>, <<"p">>, <<"/", "d", "p">>, <<"/", "a", "p">>, <<"a", "b", "p">>,
     <<"/", "d", "a", "p">>, <<"/", "t", "p">>}

\* what can be at the path x before the first call
PathStates(x) ==
    { TargetFs,
      (x :> Dir) @@ TargetFs,
      (x :> File("old")) @@ TargetFs,
      (x :> Link(<<"/", "d">>)) @@ TargetFs,
      (x :> Link(<<"/", "t">>)) @@ TargetFs,
      (x :> Link(<<"/", "gone">>)) @@ TargetFs,
      (x :> Link(<<"d">>)) @@ TargetFs,
      (x :> Link(x)) @@ TargetFs,
      (x :> Dir) @@ (Join(x, <<"k">>) :> File("k")) @@ TargetFs }

InitMkdirp ==
    /\ \E x \in MkdirPaths :
          /\ call = [path |-> x, n |-> 0, errs |-> <<>>, ran |-> <<>>, after |-> <<>>]
          /\ fs \in {f \in PathStates(Abspath(x)) :
                        \A q \in DOMAIN f : Len(q) > 1 => Has(f, Dirname(q))
                                                          /\ f[Dirname(q)].kind = "dir"}
    /\ fs0 = fs
    /\ platform = "Linux"
    /\ argv = <<>>
    /\ stack = <<Frame("mkdirp", "call", BaseNS, <<>>, fs)>>
    /\ done = FALSE
    /\ exit_code = 0
    /\ err = NoErr
    /\ log = <<>>
    /\ ntmp = 0

\* mkdirp(path): nothing when os.path.exists(path), else run("mkdir -p"),
\* whose non-zero status is the CalledProcessError that leaves mkdirp
MkdirpCall ==
    /\ call.n < MaxCalls
    /\ IF MkdirpRuns(fs, call.path)
       THEN \E st \in {0, 1} :
               LET out == ToolMkdirP(fs, call.path)
               IN /\ st = 0 => out.ok
                  /\ fs' = IF st = 0 THEN out.fs ELSE fs
                  /\ call' = [call EXCEPT
                                !.n = @ + 1,
                                !.errs = Append(@, IF st = 0 THEN ""
                                                   ELSE "CalledProcessError"),
                                !.ran = Append(@, TRUE),
                                !.after = Append(@, fs')]
       ELSE /\ fs' = fs
            /\ call' = [call EXCEPT !.n = @ + 1,
                                    !.errs = Append(@, ""),
                                    !.ran = Append(@, FALSE),
                                    !.after = Append(@, fs)]
    /\ UNCHANGED <<platform, argv, fs0, stack, done, exit_code, err, log, ntmp>>

NextMkdirp == MkdirpCall

SpecMkdirp == InitMkdirp /\ [][NextMkdirp]_vars

(***************************************************************************)
(* C11.  When mkdirp(path) has returned without error there is a           *)
(* directory at path, and a second mkdirp(path) raises nothing, runs no    *)
(* command and leaves the filesystem as it was.  (The statement of the     *)
(* claim; the code breaks it.)                                             *)
(***************************************************************************)
C11_MkdirpIdempotent ==
    (call.n >= 1 /\ call.errs[1] = "") =>
       /\ IsDir(call.after[1], call.path)
       /\ call.n >= 2 =>
             /\ call.errs[2] = ""
             /\ ~call.ran[2]
             /\ call.after[2] = call.after[1]
====
